---- MODULE Spec2Model ----
(***************************************************************************)
(* DFA minimisation (src/DFA_Minimization.c): the state graph, the pruning *)
(* of unreachable states, the initial partition, Moore's refinement to a   *)
(* fixpoint and the minimised transition table.                            *)
(*                                                                         *)
(* C arrays are 0-based; the sequences below are 1-based, so the C slot i  *)
(* is element i + 1 here.  The fields id and partitionId keep their C      *)
(* values (0-based).  A State* is a natural number, NULL is 0.             *)
(***************************************************************************)
EXTENDS Integers, Sequences, FiniteSets

\* ------------------------------------------------------------------ bounds
\* Largest number of states of an enumerated input DFA.
MaxN == 2
\* Largest number of createState calls followed in SpecCreate.
MaxCreates == 3

\* ------------------------------------------------------- program constants
MAX_STATES == 64
ALPHABET_SIZE == 2
NULL == 0
\* A State* that was never stored in allStates (not made by createState).
Foreign == 99
\* "no target" in a signature (refineAllPartitions) and "no partition yet".
NoTargetId == -2
NoPartition == -1

Symbols == 0 .. (ALPHABET_SIZE - 1)

VARIABLES
    heap,        \* State* -> State record, the malloc'ed states not yet freed
    allStates,   \* allStates[0..nStates-1]
    nStates,
    reachable,   \* reachable[0..]: the slots markReachable/removeUnreachable read
    partitions,  \* partitions[0..nPartitions-1]
    nPartitions,
    pc,          \* main's position
    start,       \* initialDFAState
    passes,      \* iterations of refineAllPartitions' do-while so far
    table,       \* the rows printMinimizedDFA printed
    stderr,      \* what was written to stderr
    proc,        \* "running", or "exited" after exit(EXIT_FAILURE)
    input,       \* the DFA as constructed, before the pipeline touched it
    round,       \* 1: the input DFA; 2: its minimised DFA fed back in
    firstCount,  \* nPartitions at the end of round 1
    creates      \* createState calls followed so far (SpecCreate)

vars == <<heap, allStates, nStates, reachable, partitions, nPartitions, pc,
          start, passes, table, stderr, proc, input, round, firstCount, creates>>

\* ----------------------------------------------------------------- helpers
Range(s) == {s[i] : i \in 1 .. Len(s)}

\* getStateIndexByPtr over an explicit array: the 0-based slot, or -1.
IndexIn(arr, s) ==
    IF s = NULL THEN -1
    ELSE IF \E i \in 1 .. Len(arr) : arr[i] = s
         THEN (CHOOSE i \in 1 .. Len(arr) :
                  arr[i] = s /\ \A j \in 1 .. (i - 1) : arr[j] # s) - 1
         ELSE -1

getStateIndexByPtr(s) == IndexIn(allStates, s)

\* The State createState builds: name, isFinal, next[] = NULL, id, partitionId.
NewState(name, isFinal, id) ==
    [name |-> name, isFinal |-> isFinal,
     next |-> [sym \in Symbols |-> NULL],
     id |-> id, partitionId |-> NoPartition]

\* ------------------------------------------------ the constructed input DFA
\* A DFA as main builds it: n createState calls, then the next[] assignments.
\* State k (1..n) is the k-th created; its name is its creation number.
\* snprintf(s->name, sizeof(s->name), "%s", name): at most 3 characters kept.
NameLen == 3
Trunc(name) == SubSeq(name, 1, IF Len(name) < NameLen THEN Len(name) ELSE NameLen)

BuildHeap(n, fin, nxt) ==
    [p \in 1 .. n |->
        [NewState(Trunc(<<"q", p>>), fin[p], p - 1) EXCEPT !.next = nxt[p]]]

BuildAll(n) == [i \in 1 .. n |-> i]

\* Example DFA 2 of main (the one compiled in): q1..q4, start q1.
MainFinal == <<FALSE, TRUE, TRUE, FALSE>>
MainNext ==
    <<[sym \in Symbols |-> IF sym = 0 THEN 2 ELSE 3],
      [sym \in Symbols |-> IF sym = 0 THEN 3 ELSE 2],
      [sym \in Symbols |-> IF sym = 0 THEN 3 ELSE 2],
      [sym \in Symbols |-> IF sym = 0 THEN 2 ELSE 3]>>
MainInput == [n |-> 4, isFinal |-> MainFinal, next |-> MainNext, start |-> 1]

\* Example DFA 1 of main (commented out in the source): q0..q5, start q0.
\* q0..q5 are the states 1..6 here.
Ex1Final == <<FALSE, TRUE, TRUE, FALSE, TRUE, FALSE>>
Ex1Next ==
    <<[sym \in Symbols |-> IF sym = 0 THEN 4 ELSE 2],
      [sym \in Symbols |-> IF sym = 0 THEN 3 ELSE 6],
      [sym \in Symbols |-> IF sym = 0 THEN 3 ELSE 6],
      [sym \in Symbols |-> IF sym = 0 THEN 1 ELSE 5],
      [sym \in Symbols |-> IF sym = 0 THEN 3 ELSE 6],
      [sym \in Symbols |-> IF sym = 0 THEN 6 ELSE 6]>>
Ex1Input == [n |-> 6, isFinal |-> Ex1Final, next |-> Ex1Next, start |-> 1]

\* A constructed DFA: n states, their accepting flags and next[] and the start.
Dfa(n, f, x, s) == [n |-> n, isFinal |-> f, next |-> x, start |-> s]

\* The starts tried: a state of the graph, NULL or a foreign State*.
Starts(n) == (1 .. n) \cup {NULL, Foreign}

\* The program state when main reaches removeUnreachable with input d.
Loaded(d, r) ==
    /\ heap = BuildHeap(d.n, d.isFinal, d.next)
    /\ allStates = BuildAll(d.n)
    /\ nStates = d.n
    /\ reachable = [i \in 1 .. d.n |-> FALSE]
    /\ partitions = <<>>
    /\ nPartitions = 0
    /\ pc = "prune"
    /\ start = d.start
    /\ passes = 0
    /\ table = <<>>
    /\ stderr = <<>>
    /\ proc = "running"
    /\ input = d
    /\ round = r
    /\ firstCount = 0
    /\ creates = 0

\* Every DFA of at most MaxN states over the two symbols, transitions may be
\* absent; and the two example DFAs of main.
Init ==
    \/ \E n \in 1 .. MaxN :
         \E f \in [1 .. n -> BOOLEAN], x \in [1 .. n -> [Symbols -> 0 .. n]],
            s \in Starts(n) : Loaded(Dfa(n, f, x, s), 1)
    \/ Loaded(MainInput, 1)
    \/ Loaded(Ex1Input, 1)

\* ------------------------------------------------------------ markReachable
\* reachable[k] = true, k 0-based.
SetReachable(r, k) == SubSeq(r, 1, k) \o <<TRUE>> \o SubSeq(r, k + 2, Len(r))

\* One visit of slot i (0-based) in the propagation loop: both symbols in turn.
RECURSIVE VisitSyms(_, _, _)
VisitSyms(r, i, sym) ==
    IF sym >= ALPHABET_SIZE THEN r
    ELSE LET targetState == heap[allStates[i + 1]].next[sym]
             targetIndex == getStateIndexByPtr(targetState)
         IN  IF targetState # NULL /\ targetIndex # -1 /\ ~r[targetIndex + 1]
             THEN VisitSyms(SetReachable(r, targetIndex), i, sym + 1)
             ELSE VisitSyms(r, i, sym + 1)

\* One for-loop over the slots i..nStates-1, updating reachable[] in place.
RECURSIVE SweepFrom(_, _)
SweepFrom(r, i) ==
    IF i >= nStates THEN r
    ELSE IF ~r[i + 1] THEN SweepFrom(r, i + 1)
         ELSE SweepFrom(VisitSyms(r, i, 0), i + 1)

\* while (changed): a sweep changes reachable[] exactly when it sets changed.
RECURSIVE Propagate(_)
Propagate(r) ==
    LET swept == SweepFrom(r, 0)
    IN  IF swept = r THEN r ELSE Propagate(swept)

NotFoundMsg == "Error: Start node not found in allStates during markReachable."

\* The slot markReachable starts from (0-based), or -1 when startNode is not in
\* allStates.
StartIndex(startNode) ==
    LET found == getStateIndexByPtr(startNode)
    IN  IF found # -1 THEN found
        ELSE IF nStates > 0 /\ allStates[1] = startNode THEN 0 ELSE -1

\* markReachable(startNode): reachable[] when it returns.
markReachable(startNode) ==
    IF startNode = NULL THEN reachable
    ELSE LET cleared == [i \in 1 .. nStates |-> FALSE]
         IN  IF StartIndex(startNode) = -1 THEN cleared
             ELSE Propagate(SetReachable(cleared, StartIndex(startNode)))

\* markReachable(startNode): what it wrote to stderr.
markReachableStderr(startNode) ==
    IF startNode # NULL /\ StartIndex(startNode) = -1 THEN <<NotFoundMsg>> ELSE <<>>

\* -------------------------------------------------------- removeUnreachable
\* The first loop: a reachable state's transition into an unreachable slot
\* becomes NULL.
ClearedNext(r, p) ==
    [sym \in Symbols |->
        LET targetState == heap[p].next[sym]
            targetIndex == getStateIndexByPtr(targetState)
        IN  IF targetState # NULL /\ targetIndex # -1 /\ ~r[targetIndex + 1]
            THEN NULL ELSE targetState]

\* Mutant: the compaction keeps every slot, reachable or not.
CompactKeepAll(r, readIndex) == SubSeq(allStates, readIndex + 1, nStates)

\* The compaction loop: the reachable slots, in order.
RECURSIVE Compact(_, _)
Compact(r, readIndex) ==
    IF readIndex >= nStates THEN <<>>
    ELSE IF r[readIndex + 1]
         THEN <<allStates[readIndex + 1]>> \o Compact(r, readIndex + 1)
         ELSE Compact(r, readIndex + 1)

\* Mutant: the compaction moves the states and leaves their ids as they were.
NewIdStale(kept, p) == heap[p].id

\* allStates[writeIndex]->id = writeIndex
NewId(kept, p) == IndexIn(kept, p)

RemoveUnreachable ==
    /\ pc = "prune"
    /\ reachable' = markReachable(start)
    /\ stderr' = stderr \o markReachableStderr(start)
    /\ allStates' = Compact(reachable', 0)
    /\ nStates' = Len(allStates')
    /\ heap' = [p \in Range(allStates') |->
                   [heap[p] EXCEPT !.next = ClearedNext(reachable', p),
                                   !.id = NewId(allStates', p)]]
    /\ pc' = "init"
    /\ UNCHANGED <<partitions, nPartitions, start, passes, table, proc, input,
                   round, firstCount, creates>>

\* --------------------------------------------------------- initialPartition
LabelOf(sts) == [j \in 1 .. Len(sts) |-> heap[sts[j]].name]

\* Mutant: the non-final partition is made first.
initialPartitionNonFinalFirst ==
    LET IsFinal(p) == heap[p].isFinal
        NonFinal(p) == ~heap[p].isFinal
        finalP == SelectSeq(allStates, IsFinal)
        nonFinalP == SelectSeq(allStates, NonFinal)
        first == IF Len(nonFinalP) > 0
                 THEN <<[states |-> nonFinalP, id |-> 0, label |-> LabelOf(nonFinalP)]>>
                 ELSE <<>>
    IN  IF Len(finalP) > 0
        THEN Append(first, [states |-> finalP, id |-> Len(first),
                            label |-> LabelOf(finalP)])
        ELSE first

initialPartitionList ==
    LET IsFinal(p) == heap[p].isFinal
        NonFinal(p) == ~heap[p].isFinal
        finalP == SelectSeq(allStates, IsFinal)
        nonFinalP == SelectSeq(allStates, NonFinal)
        first == IF Len(finalP) > 0
                 THEN <<[states |-> finalP, id |-> 0, label |-> LabelOf(finalP)]>>
                 ELSE <<>>
    IN  IF Len(nonFinalP) > 0
        THEN Append(first, [states |-> nonFinalP, id |-> Len(first),
                            label |-> LabelOf(nonFinalP)])
        ELSE first

\* The partitionId every member of the partitions in ps is given, the later
\* partition winning; a state in none of them keeps its partitionId, or is left
\* at -1 when reset is set (initialPartition's first loop).
AssignIds(ps, reset) ==
    [p \in DOMAIN heap |->
        LET holders == {i \in 1 .. Len(ps) : p \in Range(ps[i].states)}
        IN  IF holders = {}
            THEN IF reset THEN [heap[p] EXCEPT !.partitionId = NoPartition]
                 ELSE heap[p]
            ELSE LET last == CHOOSE i \in holders : \A j \in holders : j <= i
                 IN  [heap[p] EXCEPT !.partitionId = ps[last].id]]

InitialPartition ==
    /\ pc = "init"
    /\ partitions' = initialPartitionList
    /\ nPartitions' = Len(partitions')
    /\ heap' = AssignIds(partitions', TRUE)
    /\ pc' = "refine"
    /\ UNCHANGED <<allStates, nStates, reachable, start, passes, table, stderr,
                   proc, input, round, firstCount, creates>>

\* ------------------------------------------------------ refineAllPartitions
\* Mutant: "no target" compares as partition 0 instead of the sentinel.
TargetPartitionZero(s, sym) ==
    LET nxt == heap[s].next[sym]
    IN  IF nxt # NULL THEN heap[nxt].partitionId ELSE 0

\* next ? next->partitionId : -2
TargetPartition(s, sym) ==
    LET nxt == heap[s].next[sym]
    IN  IF nxt # NULL THEN heap[nxt].partitionId ELSE NoTargetId

\* Mutant: only the first symbol is compared.
DistinguishableFirstSymbol(s_j, s_k_rep) ==
    TargetPartition(s_j, 0) # TargetPartition(s_k_rep, 0)

Distinguishable(s_j, s_k_rep) ==
    \E sym \in Symbols : TargetPartition(s_j, sym) # TargetPartition(s_k_rep, sym)

\* The k loop: s_j joins the first sub-partition whose first state it cannot
\* be told from, or opens a new one.
RECURSIVE Place(_, _, _)
Place(subs, s_j, k) ==
    IF k > Len(subs) THEN Append(subs, <<s_j>>)
    ELSE IF ~Distinguishable(s_j, subs[k][1])
         THEN [subs EXCEPT ![k] = Append(subs[k], s_j)]
         ELSE Place(subs, s_j, k + 1)

\* The j loop over P->states[1..count-1], P->states[0] opening subPartitions[0].
RECURSIVE SplitFrom(_, _, _)
SplitFrom(subs, sts, j) ==
    IF j > Len(sts) THEN subs
    ELSE SplitFrom(Place(subs, sts[j], 1), sts, j + 1)

SubPartitions(sts) == SplitFrom(<<<<sts[1]>>>>, sts, 2)

\* newPartitionsList[newNPartitionsCounter++] = x, when there is room.
AddBounded(list, x) == IF Len(list) < MAX_STATES THEN Append(list, x) ELSE list

RECURSIVE AddAll(_, _, _)
AddAll(list, subs, k) ==
    IF k > Len(subs) THEN list
    ELSE AddAll(AddBounded(list, subs[k]), subs, k + 1)

\* The i loop: the state lists of newPartitionsList after partitions[i..].
RECURSIVE NewPartitionsFrom(_, _)
NewPartitionsFrom(list, i) ==
    IF i > nPartitions THEN list
    ELSE LET sts == partitions[i].states
         IN  IF Len(sts) <= 1
             THEN NewPartitionsFrom(
                      IF Len(sts) > 0 THEN AddBounded(list, sts) ELSE list, i + 1)
             ELSE NewPartitionsFrom(AddAll(list, SubPartitions(sts), 1), i + 1)

\* Mutant: changedInPass is set whenever a partition of two or more was split
\* into its parts, even into one.
SomeSplitAtLeastOne ==
    \E i \in 1 .. nPartitions :
        /\ Len(partitions[i].states) > 1
        /\ Len(SubPartitions(partitions[i].states)) >= 1

\* changedInPass after the i loop: some partition gave more than one part.
SomeSplit ==
    \E i \in 1 .. nPartitions :
        /\ Len(partitions[i].states) > 1
        /\ Len(SubPartitions(partitions[i].states)) > 1

\* Mutant: the new ids start at 1.
RelabelledFromOne(list) ==
    [i \in 1 .. Len(list) |->
        [states |-> list[i], id |-> i, label |-> LabelOf(list[i])]]

Relabelled(list) ==
    [i \in 1 .. Len(list) |->
        [states |-> list[i], id |-> i - 1, label |-> LabelOf(list[i])]]

\* One iteration of the do-while.
RefinePass ==
    /\ pc = "refine"
    /\ IF SomeSplit \/ Len(NewPartitionsFrom(<<>>, 1)) # nPartitions
       THEN /\ partitions' = Relabelled(NewPartitionsFrom(<<>>, 1))
            /\ nPartitions' = Len(partitions')
            /\ heap' = AssignIds(partitions', FALSE)
       ELSE UNCHANGED <<nPartitions, partitions, heap>>
    /\ pc' = IF SomeSplit THEN "refine" ELSE "print"
    /\ passes' = passes + 1
    /\ UNCHANGED <<allStates, nStates, reachable, start, table, stderr, proc,
                   input, round, firstCount, creates>>

\* -------------------------------------------------------- printMinimizedDFA
\* Mutant: both columns are taken from next[0].
NextLabelFirstSymbol(s, sym) ==
    LET nxt == heap[s].next[0]
    IN  IF nxt # NULL THEN <<"S", heap[nxt].partitionId>> ELSE <<"-">>

\* "S%d" of the target's partitionId, or "-".
NextLabel(s, sym) ==
    LET nxt == heap[s].next[sym]
    IN  IF nxt # NULL THEN <<"S", heap[nxt].partitionId>> ELSE <<"-">>

\* The row printed for partition P from the member s taken as representative.
RowFrom(P, s) ==
    [id |-> P.id, label |-> P.label, final |-> heap[s].isFinal,
     next |-> [sym \in Symbols |-> NextLabel(s, sym)]]

Row(P) == RowFrom(P, P.states[1])

RECURSIVE RowsFrom(_)
RowsFrom(i) ==
    IF i > nPartitions THEN <<>>
    ELSE IF Len(partitions[i].states) = 0 THEN RowsFrom(i + 1)
         ELSE <<Row(partitions[i])>> \o RowsFrom(i + 1)

PrintMinimizedDFA ==
    /\ pc = "print"
    /\ table' = RowsFrom(1)
    /\ pc' = "done"
    /\ UNCHANGED <<heap, allStates, nStates, reachable, partitions, nPartitions,
                   start, passes, stderr, proc, input, round, firstCount, creates>>

\* ------------------------------------------- the minimised DFA as a new input
\* One state per printed row, in row order; the accepting flag and the targets
\* are the row's; the start is the row of the original start's partition.
RowOfId(pid) == CHOOSE k \in 1 .. Len(table) : table[k].id = pid

MinimizedInput ==
    [n |-> Len(table),
     isFinal |-> [k \in 1 .. Len(table) |-> table[k].final],
     next |-> [k \in 1 .. Len(table) |->
                 [sym \in Symbols |->
                     IF table[k].next[sym] = <<"-">> THEN NULL
                     ELSE RowOfId(table[k].next[sym][2])]],
     start |-> RowOfId(heap[start].partitionId)]

\* main run again on the minimised DFA of the first run.
Rerun ==
    /\ pc = "done"
    /\ round = 1
    /\ start \in DOMAIN heap
    /\ LET d == MinimizedInput
       IN  /\ heap' = BuildHeap(d.n, d.isFinal, d.next)
           /\ allStates' = BuildAll(d.n)
           /\ nStates' = d.n
           /\ reachable' = [i \in 1 .. d.n |-> FALSE]
           /\ start' = d.start
           /\ input' = d
    /\ partitions' = <<>>
    /\ nPartitions' = 0
    /\ pc' = "prune"
    /\ passes' = 0
    /\ table' = <<>>
    /\ round' = 2
    /\ firstCount' = nPartitions
    /\ UNCHANGED <<stderr, proc, creates>>

Next ==
    \/ RemoveUnreachable
    \/ InitialPartition
    \/ RefinePass
    \/ PrintMinimizedDFA
    \/ Rerun

Spec == Init /\ [][Next]_vars

\* ------------------------------------------------------------- createState
\* The names passed to createState: one that fits name[4], one that does not.
NameInputs == {<<"q", "a">>, <<"q", "a", "b", "c">>}

MaxStatesMsg == "Error: MAX_STATES exceeded"
MallocMsg == "malloc for State failed"

\* Mutant: createState without the capacity check.
CreateStateUnchecked(name, isFinal, mallocOk) ==
    /\ pc = "build"
    /\ proc = "running"
    /\ creates < MaxCreates
    /\ creates' = creates + 1
    /\ IF ~mallocOk
       THEN /\ stderr' = Append(stderr, MallocMsg)
            /\ proc' = "exited"
            /\ UNCHANGED <<heap, allStates, nStates>>
       ELSE LET s == nStates + 1
            IN  /\ heap' = [p \in DOMAIN heap \cup {s} |->
                               IF p = s THEN NewState(Trunc(name), isFinal, nStates)
                               ELSE heap[p]]
                /\ allStates' = Append(allStates, s)
                /\ nStates' = nStates + 1
                /\ UNCHANGED <<stderr, proc>>
    /\ UNCHANGED <<reachable, partitions, nPartitions, pc, start, passes, table,
                   input, round, firstCount>>

\* createState(name, isFinal); mallocOk is whether malloc returned a State.
\* malloc returns a State* no live state has: allStates holds 1..nStates here.
CreateState(name, isFinal, mallocOk) ==
    /\ pc = "build"
    /\ proc = "running"
    /\ creates < MaxCreates
    /\ creates' = creates + 1
    /\ IF nStates >= MAX_STATES
       THEN /\ stderr' = Append(stderr, MaxStatesMsg)
            /\ proc' = "exited"
            /\ UNCHANGED <<heap, allStates, nStates>>
       ELSE IF ~mallocOk
       THEN /\ stderr' = Append(stderr, MallocMsg)
            /\ proc' = "exited"
            /\ UNCHANGED <<heap, allStates, nStates>>
       ELSE LET s == nStates + 1
            IN  /\ heap' = [p \in DOMAIN heap \cup {s} |->
                               IF p = s THEN NewState(Trunc(name), isFinal, nStates)
                               ELSE heap[p]]
                /\ allStates' = Append(allStates, s)
                /\ nStates' = nStates + 1
                /\ UNCHANGED <<stderr, proc>>
    /\ UNCHANGED <<reachable, partitions, nPartitions, pc, start, passes, table,
                   input, round, firstCount>>

\* The graph after k calls createState("q", false), for every k up to the
\* capacity, before main sets any transition.
InitCreate ==
    \E k \in 0 .. MAX_STATES :
        /\ heap = [p \in 1 .. k |-> NewState(Trunc(<<"q">>), FALSE, p - 1)]
        /\ allStates = BuildAll(k)
        /\ nStates = k
        /\ reachable = <<>>
        /\ partitions = <<>>
        /\ nPartitions = 0
        /\ pc = "build"
        /\ start = NULL
        /\ passes = 0
        /\ table = <<>>
        /\ stderr = <<>>
        /\ proc = "running"
        /\ input = Dfa(0, <<>>, <<>>, NULL)
        /\ round = 1
        /\ firstCount = 0
        /\ creates = 0

NextCreate ==
    \E name \in NameInputs, isFinal \in BOOLEAN, mallocOk \in BOOLEAN :
        CreateState(name, isFinal, mallocOk)

SpecCreate == InitCreate /\ [][NextCreate]_vars

\* ======================================================= checked properties
\* What the properties below measure the code against is computed from the
\* input DFA as constructed (input), not from the program's own arrays.

ValidStart == input.start \in 1 .. input.n
Refined == pc \in {"print", "done"}

\* The input's transition and accepting flag, NULL standing for "no state".
Delta(p, sym) == IF p = NULL THEN NULL ELSE input.next[p][sym]
Accepting(p) == p # NULL /\ input.isFinal[p]

\* The states reachable from the start by zero or more transitions.
RECURSIVE Closure(_)
Closure(S) ==
    LET T == S \cup ({Delta(p, sym) : p \in S, sym \in Symbols} \ {NULL})
    IN  IF T = S THEN S ELSE Closure(T)
ReachableSet == Closure({input.start})

\* p and q accept the same strings of length at most k, a string that hits a
\* missing transition being rejected: every string w is tried, symbol by
\* symbol, along the tree of all strings of length <= k.
RECURSIVE SameLanguage(_, _, _)
SameLanguage(p, q, k) ==
    /\ Accepting(p) = Accepting(q)
    /\ k > 0 => \A sym \in Symbols :
                   SameLanguage(Delta(p, sym), Delta(q, sym), k - 1)

\* The outcome of a run that ended in p: accepted, rejected, or undefined when
\* it hit a missing transition.
Outcome(p) == IF p = NULL THEN "undefined"
              ELSE IF input.isFinal[p] THEN "accepted" ELSE "rejected"

RECURSIVE SameOutcomes(_, _, _)
SameOutcomes(p, q, k) ==
    /\ Outcome(p) = Outcome(q)
    /\ k > 0 => \A sym \in Symbols :
                   SameOutcomes(Delta(p, sym), Delta(q, sym), k - 1)

SamePartition(p, q) == heap[p].partitionId = heap[q].partitionId

\* The C1 formulas are read when refineAllPartitions has just returned
\* (pc = "print"; printMinimizedDFA changes no partitionId), on every pair of
\* distinct surviving states, each pair taken once.

\* C1 as stated: after the pipeline, two surviving states have the same final
\* partitionId iff they accept the same strings up to length 2*|states|, a
\* string that hits a missing transition counting as rejected.
C1_MyhillNerodeRejecting ==
    (pc = "print" /\ ValidStart) =>
        \A p \in Range(allStates), q \in Range(allStates) :
            p < q => (SamePartition(p, q) <=> SameLanguage(p, q, 2 * nStates))

\* C1 amended: two surviving states have the same final partitionId iff every
\* string up to length 2*|states| has the same outcome from both, the outcomes
\* being accepted, rejected and undefined (the run hit a missing transition).
C1_MyhillNerodeThreeValued ==
    (pc = "print" /\ ValidStart) =>
        \A p \in Range(allStates), q \in Range(allStates) :
            p < q => (SamePartition(p, q) <=> SameOutcomes(p, q, 2 * nStates))

\* Two states of a DFA with a missing transition were merged.
C1_Witness ==
    /\ pc = "print" /\ ValidStart
    /\ \E p \in Range(allStates), q \in Range(allStates) :
           p # q /\ SamePartition(p, q)
    /\ \E p \in Range(allStates), sym \in Symbols : Delta(p, sym) = NULL

\* C2: after removeUnreachable(start), start in the graph, allStates holds
\* exactly the states reachable from start, in their order before pruning
\* (creation order), nStates counts them and every id is the state's slot.
C2_PruneExactOrderedDense ==
    (pc # "prune" /\ ValidStart) =>
        /\ nStates = Len(allStates)
        /\ Range(allStates) = ReachableSet
        /\ DOMAIN heap = ReachableSet
        /\ \A i \in 1 .. nStates, j \in 1 .. nStates :
               i < j => allStates[i] < allStates[j]
        /\ \A i \in 1 .. nStates : heap[allStates[i]].id = i - 1

\* A state was pruned from between or before two survivors.
C2_Witness ==
    /\ pc = "init" /\ ValidStart
    /\ nStates >= 2 /\ nStates < input.n

\* C3 as stated: pruning with a start that is NULL or not in the graph reports
\* the not-found error and the run leaves no partition set and no table.
C3_BadStartReportedNoResult ==
    (pc = "done" /\ ~ValidStart) =>
        /\ NotFoundMsg \in Range(stderr)
        /\ nPartitions = 0 /\ partitions = <<>>
        /\ table = <<>>

\* C4: on a pruned graph of n >= 1 states, every pass of refineAllPartitions
\* leaves nPartitions no smaller than before and at most n, and the pass that
\* was just made is at most the n-th.
C4_PassesBoundedMonotone ==
    [][(pc = "refine" /\ nStates >= 1) =>
          /\ nPartitions' >= nPartitions
          /\ nPartitions' <= nStates'
          /\ passes' <= nStates']_vars

\* Refinement ended with its n-th pass, n >= 2: the bound is met.
C4_Witness == pc = "print" /\ nStates >= 2 /\ passes = nStates /\ nPartitions = nStates

\* C5: the minimised DFA of the first run, run through the pipeline again,
\* keeps its number of states: nothing is pruned, no two states share a
\* partition.
C5_Idempotent ==
    (pc = "done" /\ round = 2) =>
        /\ input.n = firstCount
        /\ nStates = firstCount
        /\ nPartitions = firstCount
        /\ Len(table) = firstCount
        /\ \A i \in 1 .. nPartitions : Len(partitions[i].states) = 1

C5_Witness == pc = "done" /\ round = 2 /\ firstCount >= 2

\* The minimised states reachable from the minimised start through the table.
TableTargets(k) ==
    {RowOfId(table[k].next[sym][2]) :
        sym \in {y \in Symbols : table[k].next[y] # <<"-">>}}

RECURSIVE TableClosure(_)
TableClosure(S) ==
    LET T == S \cup UNION {TableTargets(k) : k \in S}
    IN  IF T = S THEN S ELSE TableClosure(T)

\* C6: every minimised state is reachable, through the minimised transitions,
\* from the partition of the original start state.
C6_MinimizedReachable ==
    (pc = "done" /\ ValidStart) =>
        /\ Len(table) = nPartitions
        /\ TableClosure({RowOfId(heap[start].partitionId)}) = 1 .. Len(table)

C6_Witness == pc = "done" /\ ValidStart /\ Len(table) >= 2 /\ nStates < input.n

ScenarioAPartitions ==
    <<[states |-> <<2, 3>>, id |-> 0, label |-> <<<<"q", 2>>, <<"q", 3>>>>],
      [states |-> <<1>>, id |-> 1, label |-> <<<<"q", 1>>>>]>>

ScenarioATable ==
    <<[id |-> 0, label |-> <<<<"q", 2>>, <<"q", 3>>>>, final |-> TRUE,
       next |-> [sym \in Symbols |-> <<"S", 0>>]],
      [id |-> 1, label |-> <<<<"q", 1>>>>, final |-> FALSE,
       next |-> [sym \in Symbols |-> <<"S", 0>>]]>>

C8_ScenarioA ==
    (input = MainInput /\ round = 1) =>
        /\ pc # "prune" => (allStates = <<1, 2, 3>> /\ DOMAIN heap = {1, 2, 3})
        /\ pc \in {"refine", "print", "done"} =>
               (partitions = ScenarioAPartitions /\ nPartitions = 2)
        /\ Refined => passes = 1
        /\ pc = "done" => table = ScenarioATable

C8_Witness == input = MainInput /\ round = 1 /\ pc = "done" /\ Len(table) = 2

\* C9: at the fixpoint two states of one partition agree, symbol by symbol, on
\* having a transition and on the partition it leads to; the printed row is
\* the same whichever member is the representative.
C9_FixpointAgreement ==
    Refined =>
        \A i \in 1 .. nPartitions :
            \A s \in Range(partitions[i].states), t \in Range(partitions[i].states) :
                /\ \A sym \in Symbols :
                       /\ (heap[s].next[sym] = NULL) <=> (heap[t].next[sym] = NULL)
                       /\ heap[s].next[sym] # NULL =>
                              SamePartition(heap[s].next[sym], heap[t].next[sym])
                /\ RowFrom(partitions[i], s).next = Row(partitions[i]).next
                /\ pc = "done" => RowFrom(partitions[i], s).next = table[i].next

\* A partition of two states or more survived a pass that split another.
C9_Witness ==
    /\ pc = "done" /\ passes >= 2
    /\ \E i \in 1 .. nPartitions : Len(partitions[i].states) >= 2

\* C10: from initialPartition on, every state of allStates is in exactly one
\* partition, once, and its partitionId is that partition's id and slot.
Occurrences(p) ==
    {<<k, j>> \in (1 .. Len(partitions)) \X (1 .. nStates) :
        j <= Len(partitions[k].states) /\ partitions[k].states[j] = p}

C10_PartitionInvariant ==
    (pc \in {"refine", "print", "done"}) =>
        /\ nPartitions = Len(partitions)
        /\ \A k \in 1 .. nPartitions :
               /\ partitions[k].id = k - 1
               /\ Range(partitions[k].states) \subseteq Range(allStates)
               /\ Len(partitions[k].states) <= nStates
        /\ \A i \in 1 .. nStates :
               /\ Cardinality(Occurrences(allStates[i])) = 1
               /\ \A o \in Occurrences(allStates[i]) :
                      heap[allStates[i]].partitionId = partitions[o[1]].id

\* A pass has just split a partition.
C10_Witness == pc = "refine" /\ passes >= 1 /\ nPartitions >= 2 /\ nStates >= 2

====
